---------------------------- MODULE Spec2Model ----------------------------
(***************************************************************************)
(* Model of the generic Get/List/Search adapter skeleton of aws-source     *)
(* (sources/get_list_source.go), of the two hand-written ELB sources       *)
(* (elasticloadbalancing/elb.go and the ELBv2 source), and of the shared   *)
(* helpers they use (FormatScope, ParseARN, WrapAWSError, HandleTagsError).*)
(*                                                                         *)
(* Strings that the code takes apart (scopes, ARNs, queries) are sequences *)
(* of one-character strings, so that splitting and joining are computed.   *)
(* Time is a logical clock; a cache entry stored at time t with duration d *)
(* expires at t + d and may be purged from then on.                        *)
(***************************************************************************)
EXTENDS Integers, Sequences, FiniteSets, TLC

(***************************************************************************)
(* Bounds of the model                                                     *)
(***************************************************************************)
MaxCalls == 2
MaxTime == 1
\* provider calls one pagination loop may make
MaxFetches == 4
\* goroutines calling one source concurrently
NumCallers == 2
\* length of the resource component of the strings given to ParseARN
MaxResourceLen == 5

(***************************************************************************)
(* Strings                                                                 *)
(***************************************************************************)
AccountID == <<"a">>
Region == <<"r">>
GlobalScope == <<"a", "w", "s">>
OtherScope == <<"b", ".", "r">>
QueryQ == <<"q">>
QueryX == <<"x">>
QueryY == <<"y">>
\* arn:p:s:r:a:t/q : an ARN of account a, region r, resource t/q
ArnInScope == <<"a","r","n",":","p",":","s",":","r",":","a",":","t","/","q">>
\* arn:p:s:r:b:t/q : the same resource in account b
ArnOtherScope == <<"a","r","n",":","p",":","s",":","r",":","b",":","t","/","q">>
\* arn:p:s:r:a:t:x : a resource whose type and id are separated by a colon
ArnColon == <<"a","r","n",":","p",":","s",":","r",":","a",":","t",":","x">>
\* not an ARN at all
ArnInvalid == <<"q", ":", "x">>
\* arn:p:s:r:a:t/q:x : resource-type/resource-id:suffix
ArnSuffixed ==
    <<"a","r","n",":","p",":","s",":","r",":","a",":","t","/","q",":","x">>

\* FormatScope: "{accountID}.{region}", or the account ID alone when the
\* region is empty
FormatScope(accountID, region) ==
    IF region = <<>> THEN accountID ELSE accountID \o <<".">> \o region

\* index of the first element of s satisfying one of the separators, 0 if none
RECURSIVE IndexOfFrom(_, _, _)
IndexOfFrom(s, seps, i) ==
    IF i > Len(s) THEN 0
    ELSE IF s[i] \in seps THEN i
    ELSE IndexOfFrom(s, seps, i + 1)

IndexOf(s, seps) == IndexOfFrom(s, seps, 1)

\* strings.SplitN(s, ":", n): at most n sections, the last one unsplit
RECURSIVE SplitN(_, _)
SplitN(s, n) ==
    LET i == IndexOf(s, {":"})
    IN  IF n <= 1 \/ i = 0 THEN <<s>>
        ELSE <<SubSeq(s, 1, i - 1)>> \o SplitN(SubSeq(s, i + 1, Len(s)), n - 1)

\* arn.Parse of the AWS SDK, as ParseARN uses it: the "arn:" prefix and six
\* colon-separated sections are required; the sixth is the resource
ArnPrefix == <<"a", "r", "n", ":">>
ArnSections == 6

ParseARN(s) ==
    LET sections == SplitN(s, ArnSections)
    IN  IF Len(s) < Len(ArnPrefix) \/ SubSeq(s, 1, Len(ArnPrefix)) # ArnPrefix
        THEN [ok |-> FALSE, AccountID |-> <<>>, Region |-> <<>>, Resource |-> <<>>]
        ELSE IF Len(sections) # ArnSections
        THEN [ok |-> FALSE, AccountID |-> <<>>, Region |-> <<>>, Resource |-> <<>>]
        ELSE [ok |-> TRUE, AccountID |-> sections[5], Region |-> sections[4],
              Resource |-> sections[6]]

\* (mutant) everything after the last '/' or ':' of the resource
ResourceIDLastField(a) ==
    LET seps == {k \in 1..Len(a.Resource) : a.Resource[k] \in {"/", ":"}}
        i == IF seps = {} THEN 0
             ELSE CHOOSE k \in seps : \A j \in seps : j <= k
    IN  SubSeq(a.Resource, i + 1, Len(a.Resource))

\* ARN.ResourceID: everything after the first '/' or ':' of the resource
\* (the whole resource when it holds no separator: IndexFunc gives -1)
ResourceID(a) ==
    LET i == IndexOf(a.Resource, {"/", ":"})
    IN  SubSeq(a.Resource, i + 1, Len(a.Resource))

\* ARN.Type: everything before the first '/' or ':' of the resource
ArnType(a) ==
    LET i == IndexOf(a.Resource, {"/", ":"})
    IN  IF i = 0 THEN a.Resource ELSE SubSeq(a.Resource, 1, i - 1)

(***************************************************************************)
(* Errors                                                                  *)
(***************************************************************************)
\* What a provider call (or a mapper) can answer.  "http<n>" is a smithy
\* ResponseError with that status, "ctx" a context cancellation or deadline
\* error, "sdpNotFound" an error that already is an sdp.QueryError NOTFOUND
\* (as the list function of the VPC attachment adapter returns), "plain" any
\* other Go error.
Failures == {"http400", "http403", "http404", "http500", "ctx", "sdpNotFound", "plain"}
Outcomes == {"ok"} \cup Failures

NotFoundStatuses == {"http400", "http403", "http404"}

NoError == [type |-> "none", msg |-> "none"]

\* (mutant) only the status 404 is taken as not found
WrapAWSError404Only(failure) ==
    IF failure = "http404" THEN [type |-> "NOTFOUND", msg |-> failure]
    ELSE IF failure = "sdpNotFound" THEN [type |-> "NOTFOUND", msg |-> failure]
    ELSE [type |-> "OTHER", msg |-> failure]

\* WrapAWSError: a ResponseError with status 400, 403 or 404 is NOTFOUND;
\* sdp.NewQueryError keeps an error that already is a QueryError and makes
\* everything else OTHER.  The error string is the failure's own.
WrapAWSError(failure) ==
    IF failure \in NotFoundStatuses THEN [type |-> "NOTFOUND", msg |-> failure]
    ELSE IF failure = "sdpNotFound" THEN [type |-> "NOTFOUND", msg |-> failure]
    ELSE [type |-> "OTHER", msg |-> failure]

\* the run-time panic of a call through a nil function field
NilFuncPanic == [type |-> "PANIC", msg |-> "nil pointer dereference"]

\* the scope-mismatch error the sources return
NoScopeError == [type |-> "NOSCOPE", msg |-> "scope"]

\* HandleTagsError: the tags of an item whose tag fetch failed
HandleTagsError(failure) == "errorGettingTags"


(***************************************************************************)
(* State                                                                   *)
(***************************************************************************)
VARIABLES
    cfg,            \* the GetListSource's configuration fields
    cache,          \* the entries of the source's sdpcache, in insertion order
    cacheCreated,   \* whether ensureCache has constructed the cache
    now,            \* the clock
    gen,            \* the generation of the provider's data: as in the tests,
                    \* every answer of the provider differs from the one before
    ncalls,         \* calls made so far
    last,           \* the last call and what it returned
    answer,         \* what the provider answered during the last call
    funcs,          \* which of the source's function fields are set
    pager,          \* the pagination loop in progress, if any
    parsed,         \* the last string given to ParseARN and what came of it
    lazy,           \* the lazily created objects: the cache, the ELB clients
    callers,        \* the goroutines making concurrent first calls
    applied,        \* the last call of a helper function: its input and output
    listRun         \* the List call of a second goroutine, while in its loop

vars == <<cfg, cache, cacheCreated, now, gen, ncalls, last, answer, funcs,
          pager, parsed, lazy, callers, applied, listRun>>

\* the state of the sequential callers of the GetListSource and ELB Get
callVars == <<cache, cacheCreated, gen, ncalls, last, answer>>

\* the state of concurrent first calls
lazyVars == <<lazy, callers>>

\* DefaultCacheDuration, in ticks of the clock
DefaultCacheDuration == 2

\* the durations an adapter is configured with: 0 is "unset"
CacheDurations == {0, 1}

Configs ==
    [SupportGlobalResources : BOOLEAN,
     CacheDuration : CacheDurations,
     DisableList : BOOLEAN,
     HasSearchFunc : BOOLEAN,
     HasListTagsFunc : BOOLEAN]

RequestScopes == {FormatScope(AccountID, Region), GlobalScope, OtherScope}
GetQueries == {QueryQ, QueryX}
SearchQueries == {ArnInScope, ArnOtherScope, ArnInvalid}
\* what the provider's get, list and search calls answer in the model
ProviderOutcomes == {"ok", "http404", "ctx"}
\* what the tag-fetch hook answers
TagOutcomes == {"ok", "http500"}
\* what happens to a fetched resource: whether its mapping succeeds and
\* what its tag fetch answers (a resource that is not mapped has no tags
\* fetched)
Mappings ==
    {[mapOk |-> FALSE, tag |-> "ok"]}
    \cup [mapOk : {TRUE}, tag : TagOutcomes]
\* what the provider's get call answers, with what happens to the resource
GetResponses ==
    [outcome : ProviderOutcomes \ {"ok"}, fate : {[mapOk |-> TRUE, tag |-> "ok"]}]
    \cup [outcome : {"ok"}, fate : Mappings]
\* what the provider's list or search call answers: a failure, or a listing
\* with the resources whose mapping fails and those whose tag fetch fails
ListResponses ==
    [outcome : ProviderOutcomes \ {"ok"}, listing : {<<>>},
     mapFail : {{}}, tagFail : {{}}]
    \cup [outcome : {"ok"}, listing : {<<>>}, mapFail : {{}}, tagFail : {{}}]
    \cup [outcome : {"ok"}, listing : {<<QueryQ>>},
          mapFail : {{}, {QueryQ}}, tagFail : {{}}]
    \cup [outcome : {"ok"}, listing : {<<QueryQ>>},
          mapFail : {{}}, tagFail : {{QueryQ}}]
    \cup [outcome : {"ok"}, listing : {<<QueryQ, QueryX>>},
          mapFail : {{}, {QueryQ}}, tagFail : {{}}]
    \cup [outcome : {"ok"}, listing : {<<QueryQ, QueryX>>},
          mapFail : {{}}, tagFail : {{QueryX}}]

NoCall ==
    [op |-> "none", scope |-> <<>>, query |-> <<>>, ic |-> FALSE,
     invoked |-> FALSE, cached |-> FALSE, time |-> 0, err |-> NoError,
     items |-> <<>>, tagFailed |-> FALSE, expect |-> <<>>]

\* no provider call was made
NoAnswer == [outcome |-> "none"]

\* the function fields of a GetListSource that Validate requires
FuncFields == [GetFunc : BOOLEAN, ListFunc : BOOLEAN, ItemMapper : BOOLEAN]

\* a source constructed with every function set, as the New...Source
\* constructors build it
AllFuncs == [GetFunc |-> TRUE, ListFunc |-> TRUE, ItemMapper |-> TRUE]

\* no pagination loop has run
IdlePager ==
    [loop |-> "none", state |-> "idle", provider |-> <<>>, mapFail |-> {},
     nextToken |-> "nil", firstPage |-> TRUE, items |-> <<>>,
     fetched |-> <<>>, err |-> NoError]

\* ParseARN has not been called
NotParsed ==
    [input |-> <<>>, ok |-> FALSE, Resource |-> <<>>, ResourceID |-> <<>>,
     Type |-> <<>>]

\* no helper function has been called
NotApplied == [fn |-> "none"]

\* no List is in its loop
NoListRun ==
    [state |-> "idle", scope |-> <<>>, ic |-> FALSE, g |-> 0, rest |-> <<>>,
     items |-> <<>>, expect |-> <<>>]

\* the objects created on first use: the cache of the GetListSource and the
\* clients of the two ELB sources
LazyObjects == {"cache", "elbClient", "elbv2Client"}

\* a lazily created object before its first use: no instance (0), the
\* created flag unset, the mutex free (0), nothing constructed
Uncreated == [inst |-> 0, created |-> FALSE, mutex |-> 0, built |-> 0]

\* the goroutines that call a source concurrently
Callers == 1..NumCallers

\* a goroutine that is not in a call
IdleCaller == [pc |-> "idle", obj |-> "none", seen |-> 0]

(***************************************************************************)
(* The response cache (sdpcache): entries keyed by method, scope and query *)
(* (source name and item type are fixed for one source), each an item or   *)
(* an error, each with its own expiry.                                     *)
(***************************************************************************)
CacheKey(method, scope, query) ==
    [method |-> method, scope |-> scope, query |-> query]

EntryKey(e) == CacheKey(e.method, e.scope, e.query)

RECURSIVE SelectEntries(_, _)
SelectEntries(c, ck) ==
    IF c = <<>> THEN <<>>
    ELSE IF EntryKey(Head(c)) = ck THEN <<Head(c)>> \o SelectEntries(Tail(c), ck)
    ELSE SelectEntries(Tail(c), ck)

RECURSIVE DropEntries(_, _, _, _)
DropEntries(c, ck, uav, isErr) ==
    IF c = <<>> THEN <<>>
    ELSE IF EntryKey(Head(c)) = ck /\ Head(c).uav = uav
            /\ (Head(c).err # NoError) = isErr
         THEN DropEntries(Tail(c), ck, uav, isErr)
         ELSE <<Head(c)>> \o DropEntries(Tail(c), ck, uav, isErr)

RECURSIVE EntryItems(_)
EntryItems(es) ==
    IF es = <<>> THEN <<>>
    ELSE <<[uav |-> Head(es).uav, gen |-> Head(es).gen, tags |-> Head(es).tags]>>
         \o EntryItems(Tail(es))

RECURSIVE FirstError(_)
FirstError(es) ==
    IF es = <<>> THEN NoError
    ELSE IF Head(es).err # NoError THEN Head(es).err
    ELSE FirstError(Tail(es))

\* Cache.Lookup: a miss when the cache is to be ignored or holds nothing
\* under the key; a cached error is returned before any item
Lookup(c, method, scope, query, ignoreCache) ==
    LET es == SelectEntries(c, CacheKey(method, scope, query))
    IN  IF ignoreCache \/ es = <<>>
        THEN [hit |-> FALSE, err |-> NoError, items |-> <<>>]
        ELSE IF FirstError(es) # NoError
        THEN [hit |-> TRUE, err |-> FirstError(es), items |-> <<>>]
        ELSE [hit |-> TRUE, err |-> NoError, items |-> EntryItems(es)]

\* Cache.StoreItem: the item replaces an item of the same unique attribute
\* value under the key and expires `duration` after the time of the call
StoreItem(c, t, item, duration, ck) ==
    Append(DropEntries(c, ck, item.uav, FALSE),
           [method |-> ck.method, scope |-> ck.scope, query |-> ck.query,
            uav |-> item.uav, err |-> NoError, gen |-> item.gen,
            tags |-> item.tags, ttl |-> duration, expiry |-> t + duration])

\* Cache.StoreError
StoreError(c, t, err, duration, ck) ==
    Append(DropEntries(c, ck, <<>>, TRUE),
           [method |-> ck.method, scope |-> ck.scope, query |-> ck.query,
            uav |-> <<>>, err |-> err, gen |-> 0,
            tags |-> "none", ttl |-> duration, expiry |-> t + duration])

RECURSIVE Unexpired(_, _)
Unexpired(c, t) ==
    IF c = <<>> THEN <<>>
    ELSE IF Head(c).expiry > t THEN <<Head(c)>> \o Unexpired(Tail(c), t)
    ELSE Unexpired(Tail(c), t)

(***************************************************************************)
(* GetListSource                                                           *)
(***************************************************************************)
\* GetListSource.cacheDuration: the default when CacheDuration is unset
cacheDuration ==
    IF cfg.CacheDuration = 0 THEN DefaultCacheDuration ELSE cfg.CacheDuration

\* (mutant) the item mapper is not checked
ValidateGetAndList ==
    IF ~funcs.GetFunc THEN [type |-> "error", msg |-> "GetFunc is nil"]
    ELSE IF ~cfg.DisableList /\ ~funcs.ListFunc
    THEN [type |-> "error", msg |-> "ListFunc is nil"]
    ELSE NoError

\* GetListSource.Validate: the error it returns, NoError for nil
Validate ==
    IF ~funcs.GetFunc THEN [type |-> "error", msg |-> "GetFunc is nil"]
    ELSE IF ~cfg.DisableList /\ ~funcs.ListFunc
    THEN [type |-> "error", msg |-> "ListFunc is nil"]
    ELSE IF ~funcs.ItemMapper
    THEN [type |-> "error", msg |-> "ItemMapper is nil"]
    ELSE NoError

\* GetListSource.Scopes
Scopes ==
    <<FormatScope(AccountID, Region)>>
    \o (IF cfg.SupportGlobalResources THEN <<GlobalScope>> ELSE <<>>)

\* GetListSource.hasScope
hasScope(scope) ==
    \/ scope = GlobalScope /\ cfg.SupportGlobalResources
    \/ \E i \in 1..Len(Scopes) : Scopes[i] = scope

\* (mutant) no error is cached
CachesErrorNever(err) == FALSE

\* the condition under which processError caches an error
CachesError(err) == err.type = "NOTFOUND" \/ err.type = "NOSCOPE"

\* GetListSource.processError: wraps the failure and caches the error if it
\* is one that retrying will not fix
processError(c, t, failure, ck) ==
    LET sdpErr == WrapAWSError(failure)
    IN  [cache |-> IF CachesError(sdpErr)
                   THEN StoreError(c, t, sdpErr, cacheDuration, ck)
                   ELSE c,
         err |-> sdpErr]

\* the duration Get passes to StoreItem
GetStoreDuration == cfg.CacheDuration

\* (mutant) a lookup that finds nothing reports a hit without items
GetLookupHitWithoutItems(c, scope, query, ignoreCache) ==
    LET lk == Lookup(c, "GET", scope, query, ignoreCache)
    IN  IF lk.hit THEN lk ELSE [hit |-> TRUE, err |-> NoError, items |-> <<>>]

\* (mutant) the lookup of Get does not pass ignoreCache on
GetLookupNoBypass(c, scope, query, ignoreCache) ==
    Lookup(c, "GET", scope, query, FALSE)

\* the cache lookup of Get
GetLookup(c, scope, query, ignoreCache) ==
    Lookup(c, "GET", scope, query, ignoreCache)

\* the tags Get gives the item: those the hook returns, or the marker when
\* the hook fails; no tags when there is no hook
GetTags(tagOutcome) ==
    IF ~cfg.HasListTagsFunc THEN "none"
    ELSE IF tagOutcome = "ok" THEN "tags"
    ELSE HandleTagsError(tagOutcome)

\* What a call returns: the cache it leaves, its error, its items, whether
\* it invoked the provider's get/list/search function, whether a tag fetch
\* failed, and the names whose mapping succeeded.
Returns(c, err, items, invoked, tagFailed, expect) ==
    [cache |-> c, err |-> err, items |-> items, invoked |-> invoked,
     tagFailed |-> tagFailed, expect |-> expect]

\* GetListSource.Get on cache c at time t with the provider at generation g.
\* getOutcome is what GetFunc answers, mapOk whether ItemMapper succeeds,
\* tagOutcome what ListTagsFunc answers.
Get(c, t, g, scope, query, ignoreCache, getOutcome, mapOk, tagOutcome) ==
    IF ~hasScope(scope)
    THEN Returns(c, NoScopeError, <<>>, FALSE, FALSE, <<>>)
    ELSE
    LET lk == GetLookup(c, scope, query, ignoreCache)
        ck == CacheKey("GET", scope, query)
    IN  IF lk.err # NoError
        THEN Returns(c, lk.err, <<>>, FALSE, FALSE, <<>>)
        ELSE IF lk.hit
        THEN Returns(c, NoError,
                     IF lk.items = <<>> THEN <<>> ELSE <<lk.items[1]>>,
                     FALSE, FALSE, <<>>)
        ELSE IF ~funcs.GetFunc
        THEN Returns(c, NilFuncPanic, <<>>, FALSE, FALSE, <<>>)
        ELSE IF getOutcome # "ok"
        THEN LET pe == processError(c, t, getOutcome, ck)
             IN  Returns(pe.cache, pe.err, <<>>, TRUE, FALSE, <<>>)
        ELSE IF ~funcs.ItemMapper
        THEN Returns(c, NilFuncPanic, <<>>, TRUE, FALSE, <<>>)
        ELSE IF ~mapOk
        THEN LET pe == processError(c, t, "plain", ck)
             IN  Returns(pe.cache, pe.err, <<>>, TRUE, FALSE, <<>>)
        ELSE
        LET item == [uav |-> query, gen |-> g, tags |-> GetTags(tagOutcome)]
        IN  Returns(StoreItem(c, t, item, GetStoreDuration, ck), NoError,
                    <<item>>, TRUE,
                    cfg.HasListTagsFunc /\ tagOutcome # "ok", <<query>>)

\* the mapping loop of SearchCustom: items whose mapping fails are skipped
RECURSIVE MapItems(_, _, _)
MapItems(rest, g, mapFail) ==
    IF rest = <<>> THEN <<>>
    ELSE IF Head(rest) \in mapFail THEN MapItems(Tail(rest), g, mapFail)
    ELSE <<[uav |-> Head(rest), gen |-> g, tags |-> "none"]>>
         \o MapItems(Tail(rest), g, mapFail)

\* the listed names whose mapping succeeds, in the provider's order
RECURSIVE MappedNames(_, _)
MappedNames(rest, mapFail) ==
    IF rest = <<>> THEN <<>>
    ELSE IF Head(rest) \in mapFail THEN MappedNames(Tail(rest), mapFail)
    ELSE <<Head(rest)>> \o MappedNames(Tail(rest), mapFail)

\* the cache lookup of List: method LIST, empty query
ListLookup(c, scope, ignoreCache) ==
    Lookup(c, "LIST", scope, <<>>, ignoreCache)

\* what List does when ListFunc fails
ListFuncError(c, t, failure, ck) ==
    [cache |-> c, err |-> WrapAWSError(failure)]

\* what List does when the tag fetch of an item fails, `items` being the
\* items mapped before it and `expect` the listed names whose mapping
\* succeeds
ListTagsError(c, t, failure, ck, items, expect) ==
    LET pe == processError(c, t, failure, ck)
    IN  Returns(pe.cache, pe.err, <<>>, TRUE, TRUE, expect)

\* the loop of List over the listed resources `rest`: an item whose mapping
\* fails is skipped, every other item is appended and stored under the
\* LIST key
RECURSIVE ListLoop(_, _, _, _, _, _, _, _, _, _)
ListLoop(c, t, g, ck, rest, items, expect, mapFail, tagFail, tagFailure) ==
    IF rest = <<>>
    THEN Returns(c, NoError, items, TRUE, FALSE, expect)
    ELSE
    LET name == Head(rest)
        item == [uav |-> name, gen |-> g,
                 tags |-> IF cfg.HasListTagsFunc THEN "tags" ELSE "none"]
    IN  IF ~funcs.ItemMapper
        THEN Returns(c, NilFuncPanic, <<>>, TRUE, FALSE, <<>>)
        ELSE IF name \in mapFail
        THEN ListLoop(c, t, g, ck, Tail(rest), items, expect,
                      mapFail, tagFail, tagFailure)
        ELSE IF cfg.HasListTagsFunc /\ name \in tagFail
        THEN ListTagsError(c, t, tagFailure, ck, items,
                           expect \o MappedNames(rest, mapFail))
        ELSE ListLoop(StoreItem(c, t, item, cacheDuration, ck), t, g, ck,
                      Tail(rest), Append(items, item), Append(expect, name),
                      mapFail, tagFail, tagFailure)

\* GetListSource.List.  listOutcome is what ListFunc answers, listing the
\* resources it returns, mapFail those whose mapping fails, tagFail those
\* whose tag fetch fails (with tagFailure).
List(c, t, g, scope, ignoreCache, listOutcome, listing, mapFail, tagFail, tagFailure) ==
    IF ~hasScope(scope)
    THEN Returns(c, NoScopeError, <<>>, FALSE, FALSE, <<>>)
    ELSE IF cfg.DisableList
    THEN Returns(c, NoError, <<>>, FALSE, FALSE, <<>>)
    ELSE
    LET lk == ListLookup(c, scope, ignoreCache)
        ck == CacheKey("LIST", scope, <<>>)
    IN  IF lk.err # NoError
        THEN Returns(c, lk.err, <<>>, FALSE, FALSE, <<>>)
        ELSE IF lk.hit
        THEN Returns(c, NoError, lk.items, FALSE, FALSE, <<>>)
        ELSE IF ~funcs.ListFunc
        THEN Returns(c, NilFuncPanic, <<>>, FALSE, FALSE, <<>>)
        ELSE IF listOutcome # "ok"
        THEN LET le == ListFuncError(c, t, listOutcome, ck)
             IN  Returns(le.cache, le.err, <<>>, TRUE, FALSE, <<>>)
        ELSE ListLoop(c, t, g, ck, listing, <<>>, <<>>,
                      mapFail, tagFail, tagFailure)

\* GetListSource.SearchCustom: SearchFunc, then the mapper for each result
SearchCustom(c, t, g, scope, query, ignoreCache, searchOutcome, listing, mapFail) ==
    IF searchOutcome # "ok"
    THEN Returns(c, WrapAWSError(searchOutcome), <<>>, TRUE, FALSE, <<>>)
    ELSE IF listing # <<>> /\ ~funcs.ItemMapper
    THEN Returns(c, NilFuncPanic, <<>>, TRUE, FALSE, <<>>)
    ELSE Returns(c, NoError, MapItems(listing, g, mapFail), TRUE, FALSE,
                 MappedNames(listing, mapFail))

\* a nil *sdp.Item
NilItem == [uav |-> <<>>, gen |-> 0, tags |-> "nil"]

\* (mutant) the resource is fetched with the whole ARN as the query
SearchARNWholeQuery(c, t, g, scope, query, ignoreCache, getOutcome, mapOk, tagOutcome) ==
    LET a == ParseARN(query)
    IN  IF ~a.ok
        THEN Returns(c, WrapAWSError("plain"), <<>>, FALSE, FALSE, <<>>)
        ELSE IF ~hasScope(FormatScope(a.AccountID, a.Region))
        THEN Returns(c, NoScopeError, <<>>, FALSE, FALSE, <<>>)
        ELSE
        LET r == Get(c, t, g, scope, query, ignoreCache,
                     getOutcome, mapOk, tagOutcome)
        IN  IF r.err # NoError
            THEN r
            ELSE [r EXCEPT !.items = IF r.items = <<>> THEN <<NilItem>>
                                     ELSE r.items]

\* GetListSource.SearchARN: the ARN is parsed, its scope checked, and the
\* resource fetched with Get
SearchARN(c, t, g, scope, query, ignoreCache, getOutcome, mapOk, tagOutcome) ==
    LET a == ParseARN(query)
    IN  IF ~a.ok
        THEN Returns(c, WrapAWSError("plain"), <<>>, FALSE, FALSE, <<>>)
        ELSE IF ~hasScope(FormatScope(a.AccountID, a.Region))
        THEN Returns(c, NoScopeError, <<>>, FALSE, FALSE, <<>>)
        ELSE
        LET r == Get(c, t, g, scope, ResourceID(a), ignoreCache,
                     getOutcome, mapOk, tagOutcome)
        IN  IF r.err # NoError
            THEN r
            ELSE [r EXCEPT !.items = IF r.items = <<>> THEN <<NilItem>>
                                     ELSE r.items]

\* GetListSource.Search
Search(c, t, g, scope, query, ignoreCache, outcome, mapOk, tagOutcome, listing, mapFail) ==
    IF ~hasScope(scope)
    THEN Returns(c, NoScopeError, <<>>, FALSE, FALSE, <<>>)
    ELSE IF cfg.HasSearchFunc
    THEN SearchCustom(c, t, g, scope, query, ignoreCache, outcome, listing, mapFail)
    ELSE SearchARN(c, t, g, scope, query, ignoreCache, outcome, mapOk, tagOutcome)

(***************************************************************************)
(* The ELB sources                                                         *)
(***************************************************************************)
\* how many load balancers DescribeLoadBalancers answers a Get with
DescribeCounts == {0, 1, 2}

\* (mutant) of several results the first is mapped
DescribeResultFirst(g, query, describeOutcome, count, mapOk) ==
    IF describeOutcome # "ok"
    THEN Returns(<<>>, [type |-> "OTHER", msg |-> describeOutcome], <<>>,
                 TRUE, FALSE, <<>>)
    ELSE IF count = 0
    THEN Returns(<<>>, [type |-> "NOTFOUND", msg |-> "not found"], <<>>,
                 TRUE, FALSE, <<>>)
    ELSE IF mapOk
         THEN Returns(<<>>, NoError,
                      <<[uav |-> query, gen |-> g, tags |-> "none"]>>,
                      TRUE, FALSE, <<query>>)
         ELSE Returns(<<>>, [type |-> "OTHER", msg |-> "plain"], <<>>,
                      TRUE, FALSE, <<>>)

\* the switch of ELBSource.Get and getv2Impl on the number of results:
\* exactly one result is mapped, none is NOTFOUND, more are an error
DescribeResult(g, query, describeOutcome, count, mapOk) ==
    IF describeOutcome # "ok"
    THEN Returns(<<>>, [type |-> "OTHER", msg |-> describeOutcome], <<>>,
                 TRUE, FALSE, <<>>)
    ELSE IF count = 0
    THEN Returns(<<>>, [type |-> "NOTFOUND", msg |-> "not found"], <<>>,
                 TRUE, FALSE, <<>>)
    ELSE IF count = 1
    THEN IF mapOk
         THEN Returns(<<>>, NoError,
                      <<[uav |-> query, gen |-> g, tags |-> "none"]>>,
                      TRUE, FALSE, <<query>>)
         ELSE Returns(<<>>, [type |-> "OTHER", msg |-> "plain"], <<>>,
                      TRUE, FALSE, <<>>)
    ELSE Returns(<<>>, [type |-> "OTHER", msg |-> "more than 1"], <<>>,
                 TRUE, FALSE, <<>>)

\* ELBSource.Contexts and ELBv2Source.Scopes: "{accountID}.{region}"
ELBScopes == <<AccountID \o <<".">> \o Region>>

\* ELBSource.Get: DescribeLoadBalancers is called with the query, whatever
\* the requested context is
ELBGet(g, scope, query, describeOutcome, count, mapOk) ==
    DescribeResult(g, query, describeOutcome, count, mapOk)

\* ELBv2Source.Get: a scope other than the source's is refused before the
\* client is used
ELBv2Get(g, scope, query, describeOutcome, count, mapOk) ==
    IF scope # ELBScopes[1]
    THEN Returns(<<>>, NoScopeError, <<>>, FALSE, FALSE, <<>>)
    ELSE DescribeResult(g, query, describeOutcome, count, mapOk)

\* ELBSource.Find: one DescribeLoadBalancers call, whatever the requested
\* context is; a load balancer whose mapping fails is left out
ELBFind(g, scope, describeOutcome, listing, mapFail) ==
    IF describeOutcome # "ok"
    THEN Returns(<<>>, [type |-> "OTHER", msg |-> describeOutcome], <<>>,
                 TRUE, FALSE, <<>>)
    ELSE Returns(<<>>, NoError, MapItems(listing, g, mapFail), TRUE, FALSE,
                 MappedNames(listing, mapFail))

(***************************************************************************)
(* Pagination.  A continuation token is "nil" (the nil pointer), "" (the   *)
(* empty string) or a marker.  A provider is the token each of its         *)
(* responses carries, by the token of the request.                         *)
(***************************************************************************)
Tokens == {"nil", "", "t1", "t2"}

\* the resources on the page that a request with the token is answered with
PageItems(token) ==
    IF token = "t1" THEN <<QueryX>>
    ELSE IF token = "t2" THEN <<QueryY>>
    ELSE <<QueryQ>>

TokenMap(first, empty, second, third) ==
    [t \in Tokens |-> IF t = "nil" THEN first
                      ELSE IF t = "" THEN empty
                      ELSE IF t = "t1" THEN second
                      ELSE third]

\* the providers of the model: listings of one, two and three pages, one
\* whose last page carries an empty token, one that returns the same token
\* on every response, one that repeats its last token, one that alternates
PagedProviders ==
    {TokenMap("nil", "nil", "nil", "nil"),
     TokenMap("t1", "nil", "nil", "nil"),
     TokenMap("t1", "nil", "t2", "nil"),
     TokenMap("t1", "nil", "", "nil"),
     TokenMap("t1", "t1", "t1", "t1"),
     TokenMap("t1", "nil", "t2", "t2"),
     TokenMap("t1", "nil", "t2", "t1")}

\* what a page fetch answers
FetchOutcomes == {"ok", "ctx"}

\* a pagination loop at its start
StartPager(loop, provider, mapFail) ==
    [IdlePager EXCEPT !.loop = loop, !.state = "running",
                      !.provider = provider, !.mapFail = mapFail]

\* one iteration of the loop of findV2Impl: DescribeLoadBalancers with the
\* marker; a failure returns the items so far with the error; the load
\* balancers whose expansion or mapping fails are skipped; the loop goes on
\* while the response carries a marker
findV2Impl(pg, g, outcome) ==
    IF outcome # "ok"
    THEN [pg EXCEPT !.state = "done",
                    !.err = [type |-> "OTHER", msg |-> outcome],
                    !.fetched = Append(@, pg.nextToken)]
    ELSE LET nextToken == pg.provider[pg.nextToken]
         IN  [pg EXCEPT !.items = @ \o MapItems(PageItems(pg.nextToken), g,
                                                pg.mapFail),
                        !.fetched = Append(@, pg.nextToken),
                        !.nextToken = nextToken,
                        !.state = IF nextToken # "nil" THEN "running"
                                  ELSE "done"]

\* DescribeCapacityProvidersPaginator.HasMorePages
HasMorePages(pg) ==
    pg.firstPage \/ (pg.nextToken # "nil" /\ pg.nextToken # "")

\* (mutant) a repeated token is not detected
SameTokenUndetected(prevToken, nextToken) == FALSE

\* the same-token test of NextPage
SameToken(prevToken, nextToken) ==
    prevToken # "nil" /\ nextToken # "nil" /\ prevToken = nextToken

\* DescribeCapacityProvidersPaginator.NextPage: the paginator afterwards,
\* the error and the page returned
NextPage(pg, outcome) ==
    IF ~HasMorePages(pg)
    THEN [pager |-> pg, err |-> "plain", out |-> <<>>]
    ELSE IF outcome # "ok"
    THEN [pager |-> [pg EXCEPT !.fetched = Append(@, pg.nextToken)],
          err |-> outcome, out |-> <<>>]
    ELSE LET nextToken == pg.provider[pg.nextToken]
         IN  [pager |-> [pg EXCEPT !.firstPage = FALSE,
                                   !.fetched = Append(@, pg.nextToken),
                                   !.nextToken =
                                       IF SameToken(pg.nextToken, nextToken)
                                       THEN "nil" ELSE nextToken],
              err |-> "ok", out |-> PageItems(pg.nextToken)]

\* (mutant) the loop keeps only the page fetched last
layerListFuncLastPage(pg, outcome) ==
    LET np == NextPage(pg, outcome)
        kept == [np.pager EXCEPT !.items = np.out]
    IN  IF np.err # "ok"
        THEN [np.pager EXCEPT !.state = "done", !.items = <<>>,
                              !.err = [type |-> "error", msg |-> np.err]]
        ELSE [kept EXCEPT !.state = IF HasMorePages(kept) THEN "running"
                                    ELSE "done"]

\* one iteration of the loop of layerListFunc, "for HasMorePages() {
\* NextPage ... }", here over the paginator above: an error ends the listing
\* with no result, a page is appended to the result
layerListFunc(pg, outcome) ==
    LET np == NextPage(pg, outcome)
        appended == [np.pager EXCEPT !.items = @ \o np.out]
    IN  IF np.err # "ok"
        THEN [np.pager EXCEPT !.state = "done", !.items = <<>>,
                              !.err = [type |-> "error", msg |-> np.err]]
        ELSE [appended EXCEPT !.state = IF HasMorePages(appended)
                                        THEN "running" ELSE "done"]

\* the two pagination loops of FunctionGetFunc, in their order
FunctionLoops == {"urlConfigs", "eventConfigs"}

\* one iteration of a loop of FunctionGetFunc, "for HasMorePages() { out,
\* err = NextPage(ctx); if err != nil { continue } ... }": a failed fetch
\* sets err and goes back to the loop's condition, a page is appended
FunctionGetFuncLoop(pg, outcome) ==
    LET np == NextPage(pg, outcome)
    IN  IF np.err # "ok"
        THEN [np.pager EXCEPT !.err = [type |-> "error", msg |-> np.err],
                              !.state = IF HasMorePages(np.pager)
                                        THEN "running" ELSE "done"]
        ELSE [np.pager EXCEPT !.err = NoError,
                              !.items = @ \o np.out,
                              !.state = IF HasMorePages(np.pager)
                                        THEN "running" ELSE "done"]

\* whether the cache holds an entry under the key that a call looks up
HeldEntry(op, scope, query) ==
    IF op = "Get" THEN Lookup(cache, "GET", scope, query, FALSE).hit
    ELSE IF op = "List" THEN Lookup(cache, "LIST", scope, <<>>, FALSE).hit
    ELSE IF op = "Search" /\ ~cfg.HasSearchFunc /\ ParseARN(query).ok
    THEN Lookup(cache, "GET", scope, ResourceID(ParseARN(query)), FALSE).hit
    ELSE FALSE

(***************************************************************************)
(* The state machine: callers make one call after another; between calls   *)
(* time passes, the provider's data changes and expired entries are purged *)
(***************************************************************************)
\* The record of a call: its arguments, when it was made, what it returned,
\* whether it invoked the provider's get/list/search function, and whether
\* the cache held an entry under the call's key when it was made.
Call(op, scope, query, ic, r) ==
    [op |-> op, scope |-> scope, query |-> query, ic |-> ic,
     invoked |-> r.invoked, cached |-> HeldEntry(op, scope, query),
     time |-> now, err |-> r.err,
     items |-> r.items, tagFailed |-> r.tagFailed, expect |-> r.expect]

\* the state after construction of a source whose function fields are set as
\* one of `fields` says
InitWith(fields) ==
    /\ cfg \in Configs
    /\ cache = <<>>
    /\ cacheCreated = FALSE
    /\ now = 0
    /\ gen = 0
    /\ ncalls = 0
    /\ last = NoCall
    /\ answer = NoAnswer
    /\ funcs \in fields
    /\ pager = IdlePager
    /\ parsed = NotParsed
    /\ lazy = [o \in LazyObjects |-> Uncreated]
    /\ callers = [p \in Callers |-> IdleCaller]
    /\ applied = NotApplied
    /\ listRun = NoListRun

\* a source as its constructor builds it: every function set
Init == InitWith({AllFuncs})

\* what a call leaves alone besides the caller's own state
otherVars == <<funcs, pager, parsed, lazy, callers, applied, listRun>>

Record(op, scope, query, ic, r) ==
    /\ cache' = r.cache
    /\ last' = Call(op, scope, query, ic, r)
    /\ gen' = IF r.invoked THEN gen + 1 ELSE gen
    /\ ncalls' = ncalls + 1

DoGet ==
    /\ ncalls < MaxCalls
    /\ \E scope \in RequestScopes, query \in GetQueries, ic \in BOOLEAN,
          resp \in GetResponses :
          /\ Record("Get", scope, query, ic,
                    Get(cache, now, gen, scope, query, ic, resp.outcome,
                        resp.fate.mapOk, resp.fate.tag))
          /\ cacheCreated' = (cacheCreated \/ hasScope(scope))
          /\ answer' = IF last'.invoked THEN resp ELSE NoAnswer
    /\ UNCHANGED <<cfg, now, otherVars>>

\* a List call that the provider answers with one of `responses`
DoListOf(responses) ==
    /\ ncalls < MaxCalls
    /\ \E scope \in RequestScopes, ic \in BOOLEAN, resp \in responses :
          /\ Record("List", scope, <<>>, ic,
                    List(cache, now, gen, scope, ic, resp.outcome,
                         resp.listing, resp.mapFail, resp.tagFail, "http500"))
          /\ cacheCreated' = (cacheCreated
                              \/ (hasScope(scope) /\ ~cfg.DisableList))
          /\ answer' = IF last'.invoked THEN resp ELSE NoAnswer
    /\ UNCHANGED <<cfg, now, otherVars>>

DoList == DoListOf(ListResponses)

\* the provider lists q and x, and every mapping and tag fetch succeeds
WholeListing ==
    [outcome |-> "ok", listing |-> <<QueryQ, QueryX>>, mapFail |-> {},
     tagFail |-> {}]

\* a List call made while the List of another goroutine may be in its loop
DoListMeanwhile == DoListOf({WholeListing})

\* the List of a second goroutine, statement by statement.  It has passed
\* the scope check, the DisableList test and the cache lookup (a miss), and
\* ListFunc has answered: the loop over the listed resources begins.
BeginList ==
    /\ ncalls < MaxCalls
    /\ listRun.state = "idle"
    /\ \E scope \in RequestScopes, ic \in BOOLEAN :
          /\ List(cache, now, gen, scope, ic, "ok", <<>>, {}, {}, "http500").invoked
          /\ listRun' = [state |-> "loop", scope |-> scope, ic |-> ic, g |-> gen,
                         rest |-> WholeListing.listing, items |-> <<>>,
                         expect |-> <<>>]
    /\ gen' = gen + 1
    /\ cacheCreated' = TRUE
    /\ UNCHANGED <<cfg, cache, now, ncalls, last, answer, funcs, pager, parsed,
                   lazyVars, applied>>

\* one iteration of the loop: the resource is mapped, its tags are fetched,
\* the item is appended and stored in the cache
StepList ==
    /\ listRun.state = "loop"
    /\ listRun.rest # <<>>
    /\ LET r == ListLoop(cache, now, listRun.g,
                         CacheKey("LIST", listRun.scope, <<>>),
                         <<Head(listRun.rest)>>, listRun.items, listRun.expect,
                         {}, {}, "http500")
       IN  /\ cache' = r.cache
           /\ listRun' = [listRun EXCEPT !.rest = Tail(@), !.items = r.items,
                                         !.expect = r.expect]
    /\ UNCHANGED <<cfg, cacheCreated, now, gen, ncalls, last, answer, funcs,
                   pager, parsed, lazyVars, applied>>

\* return items, nil
EndList ==
    /\ listRun.state = "loop"
    /\ listRun.rest = <<>>
    /\ last' = Call("List", listRun.scope, <<>>, listRun.ic,
                    Returns(cache, NoError, listRun.items, TRUE, FALSE,
                            listRun.expect))
    /\ answer' = WholeListing
    /\ ncalls' = ncalls + 1
    /\ listRun' = NoListRun
    /\ UNCHANGED <<cfg, cache, cacheCreated, now, gen, funcs, pager, parsed,
                   lazyVars, applied>>

\* a Search on a source with a custom search function
DoSearchCustom ==
    /\ ncalls < MaxCalls
    /\ cfg.HasSearchFunc
    /\ \E scope \in RequestScopes, query \in {ArnInScope, ArnInvalid},
          ic \in BOOLEAN, resp \in ListResponses :
          /\ resp.tagFail = {}
          /\ Record("Search", scope, query, ic,
                    Search(cache, now, gen, scope, query, ic, resp.outcome,
                           TRUE, "ok", resp.listing, resp.mapFail))
          /\ answer' = IF last'.invoked THEN resp ELSE NoAnswer
    /\ UNCHANGED <<cfg, cacheCreated, now, otherVars>>

\* a Search on a source without one: the query is taken as an ARN
DoSearchARN ==
    /\ ncalls < MaxCalls
    /\ ~cfg.HasSearchFunc
    /\ \E scope \in RequestScopes, query \in SearchQueries, ic \in BOOLEAN,
          resp \in GetResponses :
          /\ Record("Search", scope, query, ic,
                    Search(cache, now, gen, scope, query, ic, resp.outcome,
                           resp.fate.mapOk, resp.fate.tag, <<>>, {}))
          /\ cacheCreated' =
                (cacheCreated
                 \/ (/\ hasScope(scope)
                     /\ ParseARN(query).ok
                     /\ hasScope(FormatScope(ParseARN(query).AccountID,
                                             ParseARN(query).Region))))
          /\ answer' = IF last'.invoked THEN resp ELSE NoAnswer
    /\ UNCHANGED <<cfg, now, otherVars>>

\* what DescribeLoadBalancers answers a Get with: a failure, or a number of
\* load balancers, the only one of which is mapped or not
DescribeResponses ==
    [outcome : ProviderOutcomes \ {"ok"}, count : {0}, mapOk : {TRUE}]
    \cup [outcome : {"ok"}, count : DescribeCounts \ {1}, mapOk : {TRUE}]
    \cup [outcome : {"ok"}, count : {1}, mapOk : BOOLEAN]

DoELBGet ==
    /\ ncalls < MaxCalls
    /\ \E scope \in RequestScopes, query \in GetQueries,
          resp \in DescribeResponses :
          /\ Record("ELBGet", scope, query, FALSE,
                    [ELBGet(gen, scope, query, resp.outcome, resp.count,
                            resp.mapOk) EXCEPT !.cache = cache])
          /\ answer' = IF last'.invoked THEN resp ELSE NoAnswer
    /\ UNCHANGED <<cfg, cacheCreated, now, otherVars>>

DoELBv2Get ==
    /\ ncalls < MaxCalls
    /\ \E scope \in RequestScopes, query \in GetQueries,
          resp \in DescribeResponses :
          /\ Record("ELBv2Get", scope, query, FALSE,
                    [ELBv2Get(gen, scope, query, resp.outcome, resp.count,
                              resp.mapOk) EXCEPT !.cache = cache])
          /\ answer' = IF last'.invoked THEN resp ELSE NoAnswer
    /\ UNCHANGED <<cfg, cacheCreated, now, otherVars>>

DoELBFind ==
    /\ ncalls < MaxCalls
    /\ \E scope \in RequestScopes, resp \in ListResponses :
          /\ resp.tagFail = {}
          /\ Record("ELBFind", scope, <<>>, FALSE,
                    [ELBFind(gen, scope, resp.outcome, resp.listing,
                             resp.mapFail) EXCEPT !.cache = cache])
          /\ answer' = resp
    /\ UNCHANGED <<cfg, cacheCreated, now, otherVars>>

\* the names on the pages fetched whose mapping succeeds, in the order of
\* the fetches
RECURSIVE FetchedNames(_, _)
FetchedNames(fetched, mapFail) ==
    IF fetched = <<>> THEN <<>>
    ELSE MappedNames(PageItems(Head(fetched)), mapFail)
         \o FetchedNames(Tail(fetched), mapFail)

\* ELBv2Source.List: a scope other than the source's is refused, otherwise
\* the loop of findV2Impl starts
DoELBv2List ==
    /\ ncalls < MaxCalls
    /\ pager.state # "running"
    /\ \E scope \in RequestScopes, provider \in PagedProviders,
          mapFail \in {{}, {QueryX}} :
          IF scope # ELBScopes[1]
          THEN /\ Record("ELBv2List", scope, <<>>, FALSE,
                         Returns(cache, NoScopeError, <<>>, FALSE, FALSE, <<>>))
               /\ answer' = NoAnswer
               /\ UNCHANGED <<cacheCreated, pager>>
          ELSE /\ pager' = StartPager("findV2", provider, mapFail)
               /\ UNCHANGED callVars
    /\ UNCHANGED <<cfg, now, funcs, parsed, lazyVars, applied, listRun>>

\* one iteration of the loop of findV2Impl; List returns when it ends
FetchELBv2Page ==
    /\ pager.loop = "findV2"
    /\ pager.state = "running"
    /\ Len(pager.fetched) < MaxFetches
    /\ \E outcome \in FetchOutcomes :
          LET pg == findV2Impl(pager, gen, outcome)
          IN  /\ pager' = pg
              /\ IF pg.state = "done"
                 THEN /\ Record("ELBv2List", ELBScopes[1], <<>>, FALSE,
                                Returns(cache, pg.err, pg.items, TRUE, FALSE,
                                        FetchedNames(pg.fetched, pg.mapFail)))
                      /\ answer' = [outcome |-> outcome]
                      /\ UNCHANGED cacheCreated
                 ELSE UNCHANGED callVars
    /\ UNCHANGED <<cfg, now, funcs, parsed, lazyVars, applied, listRun>>

\* a list function written as layerListFunc is builds its paginator
DoLayerList ==
    /\ ncalls < MaxCalls
    /\ pager.state # "running"
    /\ \E provider \in PagedProviders :
          pager' = StartPager("paged", provider, {})
    /\ UNCHANGED <<cfg, now, callVars, funcs, parsed, lazyVars, applied, listRun>>

\* one iteration of its loop; the function returns when the loop ends
FetchLayerPage ==
    /\ pager.loop = "paged"
    /\ pager.state = "running"
    /\ Len(pager.fetched) < MaxFetches
    /\ \E outcome \in FetchOutcomes :
          LET pg == layerListFunc(pager, outcome)
          IN  /\ pager' = pg
              /\ IF pg.state = "done"
                 THEN /\ Record("layerListFunc", <<>>, <<>>, FALSE,
                                Returns(cache, pg.err, <<>>, TRUE, FALSE,
                                        pg.items))
                      /\ answer' = [outcome |-> outcome]
                      /\ UNCHANGED cacheCreated
                 ELSE UNCHANGED callVars
    /\ UNCHANGED <<cfg, now, funcs, parsed, lazyVars, applied, listRun>>

\* FunctionGetFunc after GetFunction has answered: the paginator of the URL
\* configs is built
DoFunctionGet ==
    /\ \/ pager.state = "idle"
       \/ pager.loop = "eventConfigs" /\ pager.state = "done" /\ applied.returned
    /\ \E provider \in PagedProviders :
          pager' = StartPager("urlConfigs", provider, {})
    /\ applied' = [fn |-> "FunctionGetFunc", returned |-> FALSE,
                   UrlConfigs |-> <<>>, EventInvokeConfigs |-> <<>>]
    /\ UNCHANGED <<cfg, now, callVars, funcs, parsed, lazyVars, listRun>>

\* one iteration of the loop over the URL configs or of the loop over the
\* event invoke configs
FetchFunctionPage ==
    /\ pager.loop \in FunctionLoops
    /\ pager.state = "running"
    /\ Len(pager.fetched) < MaxFetches
    /\ \E outcome \in FetchOutcomes :
          pager' = FunctionGetFuncLoop(pager, outcome)
    /\ UNCHANGED <<cfg, now, callVars, funcs, parsed, lazyVars, applied, listRun>>

\* the loop over the URL configs has ended: the paginator of the event
\* invoke configs is built
BeginEventConfigs ==
    /\ pager.loop = "urlConfigs"
    /\ pager.state = "done"
    /\ \E provider \in PagedProviders :
          pager' = StartPager("eventConfigs", provider, {})
    /\ applied' = [applied EXCEPT !.UrlConfigs = pager.items]
    /\ UNCHANGED <<cfg, now, callVars, funcs, parsed, lazyVars, listRun>>

\* the loop over the event invoke configs has ended: the function returns
\* the item
ReturnFunction ==
    /\ pager.loop = "eventConfigs"
    /\ pager.state = "done"
    /\ ~applied.returned
    /\ applied' = [applied EXCEPT !.returned = TRUE,
                                  !.EventInvokeConfigs = pager.items]
    /\ UNCHANGED <<cfg, now, callVars, funcs, pager, parsed, lazyVars, listRun>>

\* a call of Validate
DoValidate ==
    /\ ncalls < MaxCalls
    /\ Record("Validate", <<>>, <<>>, FALSE,
              Returns(cache, Validate, <<>>, FALSE, FALSE, <<>>))
    /\ answer' = NoAnswer
    /\ UNCHANGED <<cfg, cacheCreated, now, otherVars>>

\* the strings given to ParseARN: a resource of up to MaxResourceLen
\* characters after the five leading sections of an ARN, after two of them
\* only, or after something that is no ARN prefix
ResourceChars == {"t", "q", "x", "/", ":"}

RECURSIVE StringsUpTo(_)
StringsUpTo(n) ==
    IF n = 0 THEN {<<>>}
    ELSE LET shorter == StringsUpTo(n - 1)
         IN  shorter \cup {Append(r, ch) : r \in shorter, ch \in ResourceChars}

ArnHeads ==
    {<<"a","r","n",":","p",":","s",":","r",":","a",":">>,
     <<"a","r","n",":","p",":">>,
     <<"q",":">>}

ArnInputs == {head \o res : head \in ArnHeads, res \in StringsUpTo(MaxResourceLen)}

\* a call of ParseARN and, when it succeeds, of ResourceID and Type
DoParseARN ==
    /\ parsed = NotParsed
    /\ \E arnString \in ArnInputs :
          LET a == ParseARN(arnString)
          IN  parsed' = [input |-> arnString, ok |-> a.ok,
                         Resource |-> a.Resource,
                         ResourceID |-> IF a.ok THEN ResourceID(a) ELSE <<>>,
                         Type |-> IF a.ok THEN ArnType(a) ELSE <<>>]
    /\ UNCHANGED <<cfg, now, callVars, funcs, pager, lazyVars, applied, listRun>>

(***************************************************************************)
(* Attribute conversion.  A value is a scalar, nil, a map from keys to      *)
(* values or an array of values; a key is a string, whose letters have a   *)
(* case.                                                                   *)
(***************************************************************************)
ScalarValue == [t |-> "scalar"]
NilValue == [t |-> "nil"]
\* the JSON null that a nil value is marshalled to
NullValue == [t |-> "null"]
MapValue(m) == [t |-> "map", m |-> m]
ArrayValue(a) == [t |-> "array", a |-> a]

\* the lower-case letter of each upper-case letter of the model's keys
LowerOf == [N |-> "n", R |-> "r", K |-> "k", A |-> "a", F |-> "f"]

Lower(ch) == IF ch \in DOMAIN LowerOf THEN LowerOf[ch] ELSE ch

\* the camel-cased key: NestedKeyName becomes nestedKeyName
CamelKey(k) == IF k = <<>> THEN k ELSE <<Lower(k[1])>> \o Tail(k)

\* CamelCase: the keys of every map are camel-cased, those of nested maps
\* and of maps inside arrays too
RECURSIVE CamelCase(_)
CamelCase(v) ==
    IF v.t = "map"
    THEN MapValue([ck \in {CamelKey(k) : k \in DOMAIN v.m} |->
                      CamelCase(v.m[CHOOSE k \in DOMAIN v.m : CamelKey(k) = ck])])
    ELSE IF v.t = "array"
    THEN ArrayValue([i \in 1..Len(v.a) |-> CamelCase(v.a[i])])
    ELSE v

\* sdp.ToAttributesViaJson: the value is marshalled to JSON and read back as
\* a map; the keys are the field names as they are, a nil is a JSON null
RECURSIVE ToAttributesViaJson(_)
ToAttributesViaJson(v) ==
    IF v.t = "map"
    THEN MapValue([k \in DOMAIN v.m |-> ToAttributesViaJson(v.m[k])])
    ELSE IF v.t = "array"
    THEN ArrayValue([i \in 1..Len(v.a) |-> ToAttributesViaJson(v.a[i])])
    ELSE IF v.t = "nil" THEN NullValue
    ELSE v

\* the map without the keys of `keys`
WithoutKeys(m, keys) == [k \in (DOMAIN m) \ keys |-> m[k]]

\* ToAttributesWithExclude: the attributes of ToAttributesViaJson, from
\* which the top-level fields named as exclusions are deleted
ToAttributesWithExclude(i, exclusions) ==
    LET attrs == ToAttributesViaJson(i)
    IN  MapValue(WithoutKeys(attrs.m, exclusions))

\* ToAttributesCase: the keys are camel-cased, then the top-level fields
\* named as exclusions and the top-level fields that are nil are dropped
ToAttributesCase(i, exclusions) ==
    LET camel == CamelCase(ToAttributesViaJson(i))
        nils == {k \in DOMAIN camel.m : camel.m[k].t = "null"}
    IN  MapValue(WithoutKeys(camel.m, exclusions \cup nils))

\* the fields of the values that are converted: Name, Removed, Nil and
\* Nested, which holds a key of two words and an array of maps
KeyName == <<"N", "a">>
KeyRemoved == <<"R", "e">>
KeyNil == <<"N", "i">>
KeyNested == <<"N", "e">>
KeyNestedKeyName == <<"K", "N">>
KeyNestedArray == <<"A", "r">>
KeyFooBar == <<"F", "B">>

NestedValue ==
    MapValue((KeyNestedKeyName :> ScalarValue)
             @@ (KeyNestedArray :>
                    ArrayValue(<<MapValue(KeyFooBar :> ScalarValue)>>)))

FieldValues ==
    (KeyName :> ScalarValue) @@ (KeyRemoved :> ScalarValue)
    @@ (KeyNil :> NilValue) @@ (KeyNested :> NestedValue)

\* the values converted: every choice of the fields
ConverterInputs ==
    {MapValue([k \in keys |-> FieldValues[k]]) : keys \in SUBSET DOMAIN FieldValues}

\* the exclusions given: the field Removed by its camel-cased name, as the
\* callers of ToAttributesCase name it, or by its name as it is
ExclusionSets == SUBSET {CamelKey(KeyRemoved), KeyRemoved, CamelKey(KeyName)}

(***************************************************************************)
(* The list output mapper of the DynamoDB table source and adapter         *)
(***************************************************************************)
\* a nil *dynamodb.DescribeTableInput
NilDescribeTableInput == [isNil |-> TRUE, TableName |-> <<>>]

DescribeTableInput(name) == [isNil |-> FALSE, TableName |-> name]

\* the ListTablesOutput values given to the mapper: nil, or up to two table
\* names
ListTablesOutputs ==
    {[isNil |-> TRUE, TableNames |-> <<>>]}
    \cup {[isNil |-> FALSE, TableNames |-> names] :
             names \in {<<>>, <<QueryQ>>, <<QueryX>>, <<QueryQ, QueryX>>,
                        <<QueryX, QueryQ>>}}

\* one DescribeTableInput for each table name, in order
RECURSIVE AppendInputs(_, _)
AppendInputs(inputs, names) ==
    IF names = <<>> THEN inputs
    ELSE AppendInputs(Append(inputs, DescribeTableInput(Head(names))), Tail(names))

\* make([]*dynamodb.DescribeTableInput, n): n nil pointers
MakeInputs(n) == [i \in 1..n |-> NilDescribeTableInput]

\* ListFuncOutputMapper of NewTableSource (sources/dynamodb): the slice is
\* made with len(output.TableNames) elements and the inputs are appended
TableSourceListFuncOutputMapper(output) ==
    IF output.isNil
    THEN [err |-> [type |-> "error", msg |-> "cannot map nil output"],
          inputs |-> <<>>]
    ELSE [err |-> NoError,
          inputs |-> AppendInputs(MakeInputs(Len(output.TableNames)),
                                  output.TableNames)]

\* ListFuncOutputMapper of NewTableAdapter (adapters/dynamodb): the slice is
\* made empty, with the capacity for the inputs, and the inputs are appended
TableAdapterListFuncOutputMapper(output) ==
    IF output.isNil
    THEN [err |-> [type |-> "error", msg |-> "cannot map nil output"],
          inputs |-> <<>>]
    ELSE [err |-> NoError,
          inputs |-> AppendInputs(MakeInputs(0), output.TableNames)]

(***************************************************************************)
(* The redaction of OIDC client secrets by the ELBv2 listener output mapper *)
(***************************************************************************)
\* the length of the URL-safe base64 encoding of a SHA-256 hash (32 bytes)
EncodedLen == 44
\* "if len(sha) > 12"
RedactionMinLen == 12
\* "sha[:11]"
VersionLen == 11

\* the encoded hash of a secret: EncodedLen characters that depend on the
\* secret and on nothing else; character i is named after the secret and i
EncodedSHA256(secret) == [i \in 1..EncodedLen |-> ToString(<<secret, i>>)]

\* "REDACTED (Version: "
RedactedPrefix ==
    <<"R","E","D","A","C","T","E","D"," ","(","V","e","r","s","i","o","n",":"," ">>

\* the secret as the mapper leaves it
Redact(secret) ==
    LET sha == EncodedSHA256(secret)
    IN  IF Len(sha) > RedactionMinLen
        THEN RedactedPrefix \o SubSeq(sha, 1, VersionLen) \o <<")">>
        ELSE <<"[","R","E","D","A","C","T","E","D","]">>

\* the default actions of a listener: without OIDC configuration, with one
\* that has no client secret, with one that has
Secrets == {<<"s", "1">>, <<"s", "2">>}

ListenerActions ==
    {[oidc |-> FALSE, hasSecret |-> FALSE, ClientSecret |-> <<>>],
     [oidc |-> TRUE, hasSecret |-> FALSE, ClientSecret |-> <<>>]}
    \cup {[oidc |-> TRUE, hasSecret |-> TRUE, ClientSecret |-> secret] :
             secret \in Secrets}

\* the listeners given to the mapper: up to two default actions
Listeners ==
    {<<>>} \cup {<<a>> : a \in ListenerActions}
    \cup {<<a, b>> : a \in ListenerActions, b \in ListenerActions}

\* listenerOutputMapper, for one listener: the default actions as the
\* attributes of the item hold them
listenerOutputMapper(DefaultActions) ==
    [i \in 1..Len(DefaultActions) |->
        IF DefaultActions[i].oidc /\ DefaultActions[i].hasSecret
        THEN [DefaultActions[i] EXCEPT !.ClientSecret = Redact(@)]
        ELSE DefaultActions[i]]

(***************************************************************************)
(* The helper functions, each applied to the inputs of the model           *)
(***************************************************************************)
\* a call of the list output mapper of the DynamoDB table source
DoTableSourceListOutputMapper ==
    /\ \E output \in ListTablesOutputs :
          applied' = [fn |-> "TableSourceListFuncOutputMapper", output |-> output,
                      out |-> TableSourceListFuncOutputMapper(output)]
    /\ UNCHANGED <<cfg, now, callVars, funcs, pager, parsed, lazyVars, listRun>>

\* a call of the list output mapper of the DynamoDB table adapter
DoTableAdapterListOutputMapper ==
    /\ \E output \in ListTablesOutputs :
          applied' = [fn |-> "TableAdapterListFuncOutputMapper", output |-> output,
                      out |-> TableAdapterListFuncOutputMapper(output)]
    /\ UNCHANGED <<cfg, now, callVars, funcs, pager, parsed, lazyVars, listRun>>

\* a call of listenerOutputMapper with one listener
DoListenerOutputMapper ==
    /\ \E listener \in Listeners :
          applied' = [fn |-> "listenerOutputMapper", DefaultActions |-> listener,
                      out |-> listenerOutputMapper(listener)]
    /\ UNCHANGED <<cfg, now, callVars, funcs, pager, parsed, lazyVars, listRun>>

\* a call of ToAttributesWithExclude
DoToAttributesWithExclude ==
    /\ \E i \in ConverterInputs, exclusions \in ExclusionSets :
          applied' = [fn |-> "ToAttributesWithExclude", input |-> i,
                      exclusions |-> exclusions,
                      out |-> ToAttributesWithExclude(i, exclusions)]
    /\ UNCHANGED <<cfg, now, callVars, funcs, pager, parsed, lazyVars, listRun>>

\* a call of ToAttributesCase
DoToAttributesCase ==
    /\ \E i \in ConverterInputs, exclusions \in ExclusionSets :
          applied' = [fn |-> "ToAttributesCase", input |-> i,
                      exclusions |-> exclusions,
                      out |-> ToAttributesCase(i, exclusions)]
    /\ UNCHANGED <<cfg, now, callVars, funcs, pager, parsed, lazyVars, listRun>>

\* a call of WrapAWSError
DoWrapAWSError ==
    /\ \E failure \in Failures :
          applied' = [fn |-> "WrapAWSError", failure |-> failure,
                      out |-> WrapAWSError(failure)]
    /\ UNCHANGED <<cfg, now, callVars, funcs, pager, parsed, lazyVars, listRun>>

(***************************************************************************)
(* Concurrent first calls: ensureCache and the Client() of the ELB sources, *)
(* one step per statement.                                                 *)
(***************************************************************************)
\* (mutant) the mutex excludes nobody
MutexNeverHeld(o) == TRUE

\* sync.Mutex.Lock can proceed
MutexFree(o) == lazy[o].mutex = 0

\* the test under the mutex: ensureCache tests s.cache against nil,
\* Client() tests clientCreated
AlreadyCreated(o) ==
    IF o = "cache" THEN lazy[o].inst # 0 ELSE lazy[o].created

\* the caller is at `pc` in a call on object o
At(p, pc, o) == callers[p].pc = pc /\ callers[p].obj = o

\* a goroutine calls Get/List/Search of the GetListSource (which call
\* ensureCache) or a method of an ELB source that calls Client()
BeginCall(p) ==
    /\ callers[p].pc = "idle"
    /\ \E o \in LazyObjects :
          callers' = [callers EXCEPT ![p] = [pc |-> "lock", obj |-> o, seen |-> 0]]
    /\ UNCHANGED <<cfg, now, callVars, funcs, pager, parsed, applied, listRun, lazy>>

\* s.cacheInitMu.Lock() / s.clientMutex.Lock()
Lock(p) ==
    /\ callers[p].pc = "lock"
    /\ MutexFree(callers[p].obj)
    /\ lazy' = [lazy EXCEPT ![callers[p].obj].mutex = p]
    /\ callers' = [callers EXCEPT ![p].pc = "check"]
    /\ UNCHANGED <<cfg, now, callVars, funcs, pager, parsed, applied, listRun>>

\* if s.cache == nil / if s.clientCreated { return s.client }
CheckCreated(p) ==
    /\ callers[p].pc = "check"
    /\ callers' =
          [callers EXCEPT ![p] =
              IF ~AlreadyCreated(callers[p].obj)
              THEN [@ EXCEPT !.pc = "create"]
              ELSE IF callers[p].obj = "cache"
              THEN [@ EXCEPT !.pc = "unlock"]
              ELSE [@ EXCEPT !.pc = "unlock",
                             !.seen = lazy[callers[p].obj].inst]]
    /\ UNCHANGED <<cfg, now, callVars, funcs, pager, parsed, applied, listRun, lazy>>

\* s.cache = sdpcache.NewCache() / s.client = elb.NewFromConfig(s.Config):
\* every construction yields a new instance
Construct(p) ==
    /\ callers[p].pc = "create"
    /\ lazy' = [lazy EXCEPT ![callers[p].obj].inst = lazy[callers[p].obj].built + 1,
                            ![callers[p].obj].built = @ + 1]
    /\ callers' = [callers EXCEPT ![p].pc =
                        IF callers[p].obj = "cache" THEN "unlock" ELSE "flag"]
    /\ UNCHANGED <<cfg, now, callVars, funcs, pager, parsed, applied, listRun>>

\* s.clientCreated = true; return s.client
SetClientCreated(p) ==
    /\ callers[p].pc = "flag"
    /\ lazy' = [lazy EXCEPT ![callers[p].obj].created = TRUE]
    /\ callers' = [callers EXCEPT ![p].pc = "unlock",
                                  ![p].seen = lazy[callers[p].obj].inst]
    /\ UNCHANGED <<cfg, now, callVars, funcs, pager, parsed, applied, listRun>>

\* (mutant) the mutex is kept for the rest of the call
UnlockedAtReturn(holder) == holder

\* sync.Mutex.Unlock: the mutex is free, whoever held it
Unlocked(holder) == 0

\* the deferred Unlock, run when ensureCache / Client() returns: the caller
\* of ensureCache goes on to the cache lookup, the caller of Client() to the
\* provider call it wanted the client for
Unlock(p) ==
    /\ callers[p].pc = "unlock"
    /\ lazy' = [lazy EXCEPT ![callers[p].obj].mutex = Unlocked(@)]
    /\ callers' = [callers EXCEPT ![p].pc =
                        IF callers[p].obj = "cache" THEN "use" ELSE "provider"]
    /\ UNCHANGED <<cfg, now, callVars, funcs, pager, parsed, applied, listRun>>

\* s.cache.Lookup(...): the caller of ensureCache reads s.cache; on a hit
\* the call returns, on a miss it calls the provider (GetFunc, ListFunc)
UseCache(p) ==
    /\ callers[p].pc = "use"
    /\ \E hit \in BOOLEAN :
          callers' = [callers EXCEPT ![p].pc = IF hit THEN "done" ELSE "provider",
                                     ![p].seen = lazy["cache"].inst]
    /\ UNCHANGED <<cfg, now, callVars, funcs, pager, parsed, applied, listRun, lazy>>

\* the provider call returns, after as long as it takes
ProviderReturns(p) ==
    /\ callers[p].pc = "provider"
    /\ callers' = [callers EXCEPT ![p].pc = "done"]
    /\ UNCHANGED <<cfg, now, callVars, funcs, pager, parsed, applied, listRun, lazy>>

\* the call is over; the goroutine may call again
EndCall(p) ==
    /\ callers[p].pc = "done"
    /\ callers' = [callers EXCEPT ![p] = IdleCaller]
    /\ UNCHANGED <<cfg, now, callVars, funcs, pager, parsed, applied, listRun, lazy>>

\* time passes
Tick ==
    /\ now < MaxTime
    /\ now' = now + 1
    /\ UNCHANGED <<cfg, cache, cacheCreated, gen, ncalls, last, answer,
                   otherVars>>

\* the cache drops the entries that have expired
Purge ==
    /\ Unexpired(cache, now) # cache
    /\ cache' = Unexpired(cache, now)
    /\ UNCHANGED <<cfg, cacheCreated, now, gen, ncalls, last, answer,
                   otherVars>>

\* the GetListSource
Next ==
    \/ DoGet
    \/ DoList
    \/ DoSearchCustom
    \/ DoSearchARN
    \/ Tick
    \/ Purge

Spec == Init /\ [][Next]_vars

\* the Get of every source
NextGet ==
    \/ DoGet
    \/ DoELBGet
    \/ DoELBv2Get
    \/ Tick
    \/ Purge

SpecGet == Init /\ [][NextGet]_vars

\* the Get of the GetListSource alone, under every configuration of the
\* fields that Get reads (it reads neither DisableList nor SearchFunc)
InitSourceGet == Init /\ ~cfg.DisableList /\ ~cfg.HasSearchFunc

NextSourceGet ==
    \/ DoGet
    \/ Tick
    \/ Purge

SpecSourceGet == InitSourceGet /\ [][NextSourceGet]_vars

\* Get and the Search by ARN that is built on it
NextGetSearch ==
    \/ DoGet
    \/ DoSearchARN
    \/ Tick
    \/ Purge

SpecGetSearch == InitSourceGet /\ [][NextGetSearch]_vars

\* the Search of the GetListSource alone, with and without a custom search
\* function
NextSearch ==
    \/ DoSearchCustom
    \/ DoSearchARN
    \/ Tick
    \/ Purge

SpecSearch == Init /\ [][NextSearch]_vars

\* the List of every source, one call after another
InitList == Init /\ ~cfg.HasSearchFunc

NextList ==
    \/ pager.state # "running" /\ DoList
    \/ pager.state # "running" /\ DoELBFind
    \/ DoELBv2List
    \/ FetchELBv2Page
    \/ pager.state # "running" /\ Tick
    \/ pager.state # "running" /\ Purge

SpecList == InitList /\ [][NextList]_vars

\* two goroutines calling List of one source whose provider lists q and x
NextConcurrentList ==
    \/ BeginList
    \/ StepList
    \/ EndList
    \/ DoListMeanwhile
    \/ Tick
    \/ Purge

SpecConcurrentList == InitList /\ [][NextConcurrentList]_vars

\* the zero value of the configuration fields
ZeroConfig ==
    [SupportGlobalResources |-> FALSE, CacheDuration |-> 0,
     DisableList |-> FALSE, HasSearchFunc |-> FALSE,
     HasListTagsFunc |-> FALSE]

\* the pagination loops
InitPages == Init /\ cfg = ZeroConfig

\* the Get of the two load-balancer sources, which read no field of the
\* GetListSource
NextELBGet ==
    \/ DoELBGet
    \/ DoELBv2Get

SpecELBGet == InitPages /\ [][NextELBGet]_vars

\* the ARN parser
NextARN == DoParseARN

\* goroutines calling one set of sources concurrently
NextLazy ==
    \E p \in Callers :
        \/ BeginCall(p)
        \/ Lock(p)
        \/ CheckCreated(p)
        \/ Construct(p)
        \/ SetClientCreated(p)
        \/ Unlock(p)
        \/ UseCache(p)
        \/ ProviderReturns(p)
        \/ EndCall(p)

SpecLazy == InitPages /\ [][NextLazy]_vars

SpecARN == InitPages /\ [][NextARN]_vars

\* the helper functions
NextHelpers ==
    \/ DoWrapAWSError
    \/ DoToAttributesWithExclude
    \/ DoToAttributesCase
    \/ DoTableSourceListOutputMapper
    \/ DoTableAdapterListOutputMapper
    \/ DoListenerOutputMapper

SpecHelpers == InitPages /\ [][NextHelpers]_vars

\* a source built by hand, with any of its function fields left unset
InitUnvalidated == InitWith(FuncFields)

\* Validate on such a source
NextValidate == DoValidate

SpecValidate == InitUnvalidated /\ [][NextValidate]_vars

\* Get and List on such a source (the fields that neither reads are fixed)
InitUnvalidatedCalls ==
    /\ InitUnvalidated
    /\ ~cfg.HasSearchFunc
    /\ ~cfg.SupportGlobalResources
    /\ cfg.CacheDuration = 0

NextUnvalidated ==
    \/ DoGet
    \/ DoList
    \/ Tick
    \/ Purge

SpecUnvalidated == InitUnvalidatedCalls /\ [][NextUnvalidated]_vars

NextPages ==
    \/ DoELBv2List
    \/ FetchELBv2Page
    \/ DoLayerList
    \/ FetchLayerPage

SpecPages == InitPages /\ [][NextPages]_vars

NextFunctionGet ==
    \/ DoFunctionGet
    \/ FetchFunctionPage
    \/ BeginEventConfigs
    \/ ReturnFunction

SpecFunctionGet == InitPages /\ [][NextFunctionGet]_vars

(***************************************************************************)
(* Properties                                                              *)
(***************************************************************************)
\* this step is a call of `op`
IsCall(op) == ncalls' = ncalls + 1 /\ last'.op = op

\* this step is a call that repeats the last call: same operation, scope and
\* query, neither ignoring the cache, the last call having fetched from the
\* provider, this one made within the source's cache duration of it
RepeatsLast(op) ==
    /\ IsCall(op)
    /\ last.op = op
    /\ last'.scope = last.scope
    /\ last'.query = last.query
    /\ ~last.ic
    /\ ~last'.ic
    /\ last.invoked
    /\ now < last.time + cacheDuration

\* the scopes a source serves, as its Scopes() lists them
ScopesOf(op) ==
    IF op = "Get" THEN {Scopes[i] : i \in 1..Len(Scopes)}
    ELSE {ELBScopes[i] : i \in 1..Len(ELBScopes)}

\* C1: for every source, a Get whose scope is not one of the source's
\* Scopes() returns a NOSCOPE error and does not invoke the provider.
C1_ScopeMismatchRefused ==
    (last.op \in {"Get", "ELBGet", "ELBv2Get"} /\ last.scope \notin ScopesOf(last.op))
        => (last.err.type = "NOSCOPE" /\ ~last.invoked)

\* C2: a Get that repeats a successful Get (same scope and query, both with
\* ignoreCache=false, within the cache duration) returns the same item and
\* does not invoke the provider.
C2_GetTwiceFromCache ==
    [][(RepeatsLast("Get") /\ last.err = NoError)
        => (last'.err = NoError /\ last'.items = last.items /\ ~last'.invoked)]_vars

\* C3: a List that repeats a successful List (same scope, both with
\* ignoreCache=false, within the cache duration) returns the same items and
\* does not invoke the provider.
C3_ListTwiceFromCache ==
    [][(RepeatsLast("List") /\ last.err = NoError)
        => (last'.err = NoError /\ last'.items = last.items /\ ~last'.invoked)]_vars

\* C4: a Search that repeats a successful Search (same scope and query, both
\* with ignoreCache=false, within the cache duration) returns the same items
\* and does not invoke the provider, with or without a custom search function.
C4_SearchTwiceFromCache ==
    [][(RepeatsLast("Search") /\ last.err = NoError)
        => (last'.err = NoError /\ last'.items = last.items /\ ~last'.invoked)]_vars

\* the call passed the checks made before the cache is consulted: its scope
\* is served, List is not disabled, and a query taken as an ARN parses and
\* lies in a served scope
PassedChecks(call) ==
    /\ hasScope(call.scope)
    /\ call.op = "List" => ~cfg.DisableList
    /\ (call.op = "Search" /\ ~cfg.HasSearchFunc) =>
          /\ ParseARN(call.query).ok
          /\ hasScope(FormatScope(ParseARN(call.query).AccountID,
                                  ParseARN(call.query).Region))

\* C5: a Get, List or Search with ignoreCache=true is never answered from
\* the cache: it invokes the provider, and every item it returns is of the
\* provider's generation at the time of the call (gen counts the provider's
\* answers, so that generation is gen - 1 afterwards).
C5_IgnoreCacheInvokesProvider ==
    (last.op \in {"Get", "List", "Search"} /\ last.ic /\ PassedChecks(last))
        => /\ last.invoked
           /\ \A i \in 1..Len(last.items) : last.items[i].gen = gen - 1

\* C5 witness: a call with ignoreCache=true, made while the cache held an
\* entry under its key, returned an item fetched from the provider
C5_Witness ==
    /\ last.op \in {"Get", "List", "Search"}
    /\ last.ic
    /\ last.cached
    /\ last.invoked
    /\ last.items # <<>>

\* C6: a Get that repeats a Get which the provider answered with a
\* not-found-class error returns the same error without invoking the provider.
C6_NotFoundFromCache ==
    [][(RepeatsLast("Get") /\ last.err.type = "NOTFOUND")
        => (last'.err = last.err /\ ~last'.invoked)]_vars

\* C6 witness: a Get with ignoreCache=false was answered with a NOTFOUND
\* error without the provider being invoked
C6_Witness ==
    /\ last.op = "Get"
    /\ ~last.ic
    /\ ~last.invoked
    /\ last.err.type = "NOTFOUND"

\* the cache holds no error other than NOTFOUND and NOSCOPE errors
OnlyNonRetryableErrorsCached ==
    \A i \in 1..Len(cache) :
        cache[i].err # NoError => cache[i].err.type \in {"NOTFOUND", "NOSCOPE"}

\* C7: the cache never holds an error other than NOTFOUND and NOSCOPE, so a
\* call that repeats a call which failed with a generic error of the provider
\* invokes the provider again.
C7_OtherErrorsNotCached ==
    /\ []OnlyNonRetryableErrorsCached
    /\ [][(/\ \E op \in {"Get", "List", "Search"} : IsCall(op) /\ last.op = op
           /\ last'.scope = last.scope
           /\ last'.query = last.query
           /\ last'.ic = last.ic
           /\ last.invoked
           /\ last.err.type = "OTHER")
          => last'.invoked]_vars

\* C8: a List that repeats a List whose provider call failed with a
\* not-found-class error returns the same error without invoking the
\* provider's list call again.
C8_ListNotFoundFromCache ==
    [][(RepeatsLast("List") /\ last.err.type = "NOTFOUND")
        => (last'.err = last.err /\ ~last'.invoked)]_vars

\* C9: when CacheDuration is unset, every cache entry is stored with the
\* default duration.
C9_DefaultDurationWhenUnset ==
    cfg.CacheDuration = 0 =>
        \A i \in 1..Len(cache) : cache[i].ttl = DefaultCacheDuration

\* the names of a sequence of items
RECURSIVE ItemNames(_)
ItemNames(items) ==
    IF items = <<>> THEN <<>>
    ELSE <<Head(items).uav>> \o ItemNames(Tail(items))

\* C10: a Get or List during which a tag fetch failed does not fail: it
\* returns every item whose mapping succeeded, one of them carrying the
\* error-fetching-tags marker.
C10_TagFailureDoesNotFail ==
    (last.op \in {"Get", "List"} /\ last.tagFailed)
        => /\ last.err = NoError
           /\ ItemNames(last.items) = last.expect
           /\ \E i \in 1..Len(last.items) :
                 last.items[i].tags = HandleTagsError("http500")

\* C11: when the provider's list call succeeds, List returns with a nil
\* error exactly the items whose mapping succeeded, in the provider's order
\* (GetListSource.List, ELBSource.Find and ELBv2Source.List).
C11_MappingFailureDropsOnlyThatItem ==
    (last.op \in {"List", "ELBFind", "ELBv2List"} /\ last.invoked
        /\ answer.outcome = "ok")
        => (last.err = NoError /\ ItemNames(last.items) = last.expect)

\* the tokens that end a listing: findV2Impl stops at a nil marker, the
\* paginator at a nil or empty token
EndTokens(loop) == IF loop = "findV2" THEN {"nil"} ELSE {"nil", ""}

\* the provider's listing from `token` on is finite: following the tokens
\* of its responses reaches an end token without passing a token twice
RECURSIVE FiniteListing(_, _, _, _)
FiniteListing(provider, token, ends, seen) ==
    IF token \in seen THEN FALSE
    ELSE \/ provider[token] \in ends
         \/ FiniteListing(provider, provider[token], ends, seen \cup {token})

\* the request tokens of the pages of a finite listing, in order
RECURSIVE PagesOf(_, _, _)
PagesOf(provider, token, ends) ==
    IF provider[token] \in ends THEN <<token>>
    ELSE <<token>> \o PagesOf(provider, provider[token], ends)

\* the names a pagination loop has collected
PagerNames(pg) == IF pg.loop = "findV2" THEN ItemNames(pg.items) ELSE pg.items

\* C13: a pagination loop that ends without error over a provider whose
\* listing has n pages has fetched each of the n pages once, in order, and
\* returns the concatenation of their items.
C13_AllPagesFetchedOnce ==
    (/\ pager.state = "done"
     /\ pager.err = NoError
     /\ FiniteListing(pager.provider, "nil", EndTokens(pager.loop), {}))
        => LET pages == PagesOf(pager.provider, "nil", EndTokens(pager.loop))
           IN  /\ pager.fetched = pages
               /\ PagerNames(pager) = FetchedNames(pages, pager.mapFail)

\* C13 witness: the paginator loop has returned three items from three
\* pages of one item each
C13_Witness ==
    /\ pager.loop = "paged"
    /\ pager.state = "done"
    /\ pager.err = NoError
    /\ Len(pager.fetched) = 3
    /\ pager.items = <<QueryQ, QueryX, QueryY>>

\* the provider returns the same non-empty token on every response
AlwaysSameToken(provider) ==
    \E t \in Tokens \ {"nil", ""} : \A r \in Tokens : provider[r] = t

\* C14: the HasMorePages/NextPage loop never requests the token it has
\* just requested, and over a provider that returns the same non-empty
\* token on every response it ends with its second provider call.
C14_RepeatedTokenEndsListing ==
    pager.loop = "paged"
        => /\ \A i \in 2..Len(pager.fetched) :
                 pager.fetched[i] # pager.fetched[i - 1]
           /\ AlwaysSameToken(pager.provider)
                 => /\ Len(pager.fetched) <= 2
                    /\ Len(pager.fetched) = 2 => pager.state = "done"

\* C14 witness: the loop has ended without error after two calls of a
\* provider that returns the same token on every response
C14_Witness ==
    /\ pager.loop = "paged"
    /\ AlwaysSameToken(pager.provider)
    /\ pager.state = "done"
    /\ pager.err = NoError
    /\ Len(pager.fetched) = 2

\* C12: a Get answered by DescribeLoadBalancers (ELBSource.Get, getv2Impl)
\* returns an item only when the call succeeded with exactly one result;
\* with no result it fails with NOTFOUND, with two or more it fails.
C12_GetNeedsExactlyOneResult ==
    last.op \in {"ELBGet", "ELBv2Get"}
        => /\ last.items # <<>>
                 => (last.invoked /\ answer.outcome = "ok" /\ answer.count = 1)
           /\ (last.invoked /\ answer.outcome = "ok" /\ answer.count = 0)
                 => (last.err.type = "NOTFOUND" /\ last.items = <<>>)
           /\ (last.invoked /\ answer.outcome = "ok" /\ answer.count > 1)
                 => (last.err # NoError /\ last.items = <<>>)

\* C12 witness: a Get was answered with two results and failed
C12_Witness ==
    /\ last.op \in {"ELBGet", "ELBv2Get"}
    /\ last.invoked
    /\ answer.outcome = "ok"
    /\ answer.count = 2
    /\ last.err # NoError

\* what the provider answers a Get with when the call is made (a call
\* answered from the cache asks for nothing)
GetAnswer(a) ==
    IF a = NoAnswer THEN [outcome |-> "ok", fate |-> [mapOk |-> TRUE, tag |-> "ok"]]
    ELSE a

\* C16: without a custom search function, a Search for a valid ARN of a
\* served scope returns exactly the one item that Get returns for the ARN's
\* resource ID in the same state, and fails when that Get fails; with a
\* custom search function Search calls it whatever the query is and returns
\* what it finds, so the query is never parsed as an ARN.
C16_SearchByARNIsGet ==
    [][(IsCall("Search") /\ hasScope(last'.scope)) =>
        IF cfg.HasSearchFunc
        THEN /\ last'.invoked
             /\ answer'.outcome = "ok"
                   => /\ last'.err = NoError
                      /\ ItemNames(last'.items)
                            = MappedNames(answer'.listing, answer'.mapFail)
             /\ answer'.outcome # "ok" => last'.err = WrapAWSError(answer'.outcome)
        ELSE LET a == ParseARN(last'.query)
                 resp == GetAnswer(answer')
                 get == Get(cache, now, gen, last'.scope, ResourceID(a),
                            last'.ic, resp.outcome, resp.fate.mapOk,
                            resp.fate.tag)
             IN  (a.ok /\ hasScope(FormatScope(a.AccountID, a.Region)))
                    => /\ get.err = NoError
                             => /\ last'.err = NoError
                                /\ Len(last'.items) = 1
                                /\ last'.items = get.items
                       /\ get.err # NoError
                             => (last'.err # NoError /\ last'.items = <<>>)
                       /\ last'.invoked = get.invoked]_vars

\* C16 witness: a Search by ARN returned the one item of the ARN's resource
C16_Witness ==
    /\ last.op = "Search"
    /\ ~cfg.HasSearchFunc
    /\ last.query = ArnInScope
    /\ last.err = NoError
    /\ Len(last.items) = 1
    /\ last.items[1].uav = QueryQ

\* C17: a Search by ARN whose ARN's scope differs from the requested scope
\* returns a NOSCOPE error without invoking the provider.
C17_ArnScopeMustMatchRequest ==
    (/\ last.op = "Search"
     /\ ~cfg.HasSearchFunc
     /\ ParseARN(last.query).ok
     /\ FormatScope(ParseARN(last.query).AccountID,
                    ParseARN(last.query).Region) # last.scope)
        => (last.err.type = "NOSCOPE" /\ ~last.invoked)

\* the number of colons among the first n characters of s
RECURSIVE Colons(_, _)
Colons(s, n) ==
    IF n = 0 THEN 0
    ELSE Colons(s, n - 1) + (IF s[n] = ":" THEN 1 ELSE 0)

MissingRequiredFunc ==
    \/ ~funcs.GetFunc
    \/ ~funcs.ItemMapper
    \/ ~cfg.DisableList /\ ~funcs.ListFunc

\* C18: Validate returns an error exactly when a required function is
\* missing: GetFunc, ItemMapper or, unless List is disabled, ListFunc.
C18_ValidateFindsMissingFuncs ==
    last.op = "Validate" => (last.err # NoError <=> MissingRequiredFunc)

\* C18 witness: Validate has returned an error on a source that lacks only
\* its item mapper
C18_Witness ==
    /\ last.op = "Validate"
    /\ last.err # NoError
    /\ funcs.GetFunc
    /\ funcs.ListFunc
    /\ ~funcs.ItemMapper

\* C19: a Get or List on a source that is missing a required function
\* returns an error to the caller without invoking the provider and without
\* a panic.
C19_MissingFuncIsAnError ==
    (last.op \in {"Get", "List"} /\ MissingRequiredFunc)
        => /\ last.err # NoError
           /\ last.err # NilFuncPanic
           /\ ~last.invoked

\* C20: under every interleaving, each lazily created object (the cache,
\* the client of each ELB source) is constructed at most once, and a caller
\* that has come through the lazy initialisation holds the one instance.
C20_LazyObjectCreatedOnce ==
    /\ \A o \in LazyObjects : lazy[o].built <= 1
    /\ \A p \in Callers :
          callers[p].pc = "done"
              => /\ lazy[callers[p].obj].built = 1
                 /\ callers[p].seen # 0
                 /\ callers[p].seen = lazy[callers[p].obj].inst

\* C20 witness: every goroutine has come through a call on the same object
\* at the same time and holds its instance
C20_Witness ==
    \E o \in LazyObjects :
        \A p \in Callers :
            /\ callers[p].pc = "done"
            /\ callers[p].obj = o
            /\ callers[p].seen = lazy[o].inst
            /\ callers[p].seen # 0

\* C21: a caller that is in the provider call of a Get, List or Search does
\* not hold the cache-initialisation mutex, so that every other caller of
\* the source that waits for the mutex waits for a caller that is inside
\* ensureCache, never for the provider.
C21_MutexFreeDuringProviderCall ==
    \A p \in Callers :
        (callers[p].pc = "provider" /\ callers[p].obj = "cache")
            => /\ lazy["cache"].mutex # p
               /\ \A q \in Callers :
                     (callers[q].pc = "lock" /\ callers[q].obj = "cache"
                      /\ ~MutexFree("cache"))
                         => callers[lazy["cache"].mutex].pc
                                \in {"check", "create", "unlock"}

\* C21 witness: one caller is in the provider call while another caller has
\* taken the cache-initialisation mutex and is inside ensureCache
C21_Witness ==
    \E p, q \in Callers :
        /\ callers[p].pc = "provider"
        /\ callers[p].obj = "cache"
        /\ callers[q].pc = "check"
        /\ callers[q].obj = "cache"
        /\ lazy["cache"].mutex = q

\* the failures that already are an sdp.QueryError, and the type they carry
QueryErrorTypes == [sdpNotFound |-> "NOTFOUND"]

\* C22 as stated: WrapAWSError gives NOTFOUND exactly for the failures that
\* carry an HTTP status of 400, 403 or 404, and OTHER for every other one.
C22_NotFoundExactlyForHTTPStatus ==
    applied.fn = "WrapAWSError"
        => /\ applied.out.type = "NOTFOUND" <=> applied.failure \in NotFoundStatuses
           /\ applied.failure \notin NotFoundStatuses => applied.out.type = "OTHER"

\* C22 (amended): WrapAWSError gives NOTFOUND for a failure that carries an
\* HTTP status of 400, 403 or 404; a failure that already is an
\* sdp.QueryError keeps the type it has; every other failure is OTHER.
C22_ClassifiesByStatusOrKeepsQueryError ==
    applied.fn = "WrapAWSError"
        => applied.out.type =
              IF applied.failure \in {"http400", "http403", "http404"}
              THEN "NOTFOUND"
              ELSE IF applied.failure \in DOMAIN QueryErrorTypes
              THEN QueryErrorTypes[applied.failure]
              ELSE "OTHER"

\* C22 witness: a failure with status 403 has been classified as not found
C22_Witness ==
    /\ applied.fn = "WrapAWSError"
    /\ applied.failure = "http403"
    /\ applied.out.type = "NOTFOUND"

\* every key of the value, at every depth, is camel-cased
RECURSIVE AllKeysCamel(_)
AllKeysCamel(v) ==
    IF v.t = "map"
    THEN \A k \in DOMAIN v.m : CamelKey(k) = k /\ AllKeysCamel(v.m[k])
    ELSE IF v.t = "array"
    THEN \A i \in 1..Len(v.a) : AllKeysCamel(v.a[i])
    ELSE TRUE

\* the attribute bag holds no top-level key named as an exclusion and no
\* key of a field that was nil, and holds every other field of the input
\* under its camel-cased key, with camel-cased keys below it
ConvertedAsSpecified(input, exclusions, out) ==
    /\ \A k \in DOMAIN out.m : k \notin exclusions
    /\ \A k \in DOMAIN input.m :
          input.m[k].t = "nil"
              => (k \notin DOMAIN out.m /\ CamelKey(k) \notin DOMAIN out.m)
    /\ \A k \in DOMAIN input.m :
          (input.m[k].t # "nil" /\ k \notin exclusions
           /\ CamelKey(k) \notin exclusions)
              => /\ CamelKey(k) \in DOMAIN out.m
                 /\ AllKeysCamel(out.m[CamelKey(k)])

\* C23: the attribute bag that a conversion produces (ToAttributesCase,
\* ToAttributesWithExclude) is as specified: exclusions and nil fields
\* absent, every other field under its camel-cased key, nested keys
\* camel-cased.
C23_AttributesExcludedAndCamelCased ==
    applied.fn \in {"ToAttributesCase", "ToAttributesWithExclude"}
        => ConvertedAsSpecified(applied.input, applied.exclusions, applied.out)

\* the same for ToAttributesCase alone
ToAttributesCaseAsSpecified ==
    applied.fn = "ToAttributesCase"
        => ConvertedAsSpecified(applied.input, applied.exclusions, applied.out)

C26_DegradedItemNotServedFromCache ==
    (last.op = "Get" /\ ~last.invoked /\ last.err = NoError /\ last.items # <<>>)
        => last.items[1].tags # HandleTagsError("http500")

\* C25: with a provider that lists q and x, every List that returns without
\* error on a served scope, from the provider or from the cache, returns
\* both q and x: never a part of the listing that another List, still in
\* its loop, has stored so far.
C25_ListNeverPartial ==
    (/\ last.op = "List"
     /\ last.err = NoError
     /\ hasScope(last.scope)
     /\ ~cfg.DisableList)
        => \A name \in {QueryQ, QueryX} :
              \E i \in 1..Len(last.items) : last.items[i].uav = name

\* C27: for a ListTables output that is not nil, the list output mapper of
\* the table source and of the table adapter returns, without error, one
\* DescribeTable input that is not nil for each table name, in the same
\* order, and nothing else.
C27_OneInputPerTableName ==
    (/\ applied.fn \in {"TableSourceListFuncOutputMapper",
                        "TableAdapterListFuncOutputMapper"}
     /\ ~applied.output.isNil)
        => /\ applied.out.err = NoError
           /\ Len(applied.out.inputs) = Len(applied.output.TableNames)
           /\ \A i \in 1..Len(applied.out.inputs) :
                 /\ ~applied.out.inputs[i].isNil
                 /\ applied.out.inputs[i].TableName = applied.output.TableNames[i]

\* the same for the table adapter alone
TableAdapterOneInputPerTableName ==
    (applied.fn = "TableAdapterListFuncOutputMapper" /\ ~applied.output.isNil)
        => /\ applied.out.err = NoError
           /\ applied.out.inputs
                 = [i \in 1..Len(applied.output.TableNames) |->
                       DescribeTableInput(applied.output.TableNames[i])]

\* the string s holds the string part somewhere
Holds(s, part) ==
    \E i \in 0..(Len(s) - Len(part)) : SubSeq(s, i + 1, i + Len(part)) = part

\* C30: every client secret of an OIDC default action is replaced by the
\* marker that holds the first 12 characters of the encoded SHA-256 hash of
\* the secret, and the secret itself is not in what the item holds.
C30_SecretRedactedWithHashPrefix ==
    applied.fn = "listenerOutputMapper"
        => \A i \in 1..Len(applied.DefaultActions) :
              (applied.DefaultActions[i].oidc /\ applied.DefaultActions[i].hasSecret)
                  => LET secret == applied.DefaultActions[i].ClientSecret
                         shown == applied.out[i].ClientSecret
                     IN  /\ Holds(shown, SubSeq(EncodedSHA256(secret), 1, 12))
                         /\ Holds(shown, <<"R","E","D","A","C","T","E","D">>)
                         /\ \A j \in 1..Len(applied.out) :
                               ~Holds(applied.out[j].ClientSecret, secret)

\* the part of C30 that is about the secret: it is replaced by a marker and
\* is not in what the item holds
SecretNeverInItem ==
    applied.fn = "listenerOutputMapper"
        => \A i \in 1..Len(applied.DefaultActions) :
              (applied.DefaultActions[i].oidc /\ applied.DefaultActions[i].hasSecret)
                  => /\ Holds(applied.out[i].ClientSecret,
                              <<"R","E","D","A","C","T","E","D">>)
                     /\ \A j \in 1..Len(applied.out) :
                           ~Holds(applied.out[j].ClientSecret,
                                  applied.DefaultActions[i].ClientSecret)

\* the markers the loop has requested
Requested(pg) == {pg.fetched[i] : i \in 1..Len(pg.fetched)}

\* C28: the listing loop of findV2Impl ends after finitely many provider
\* calls over a provider that returns the same marker on every page: the
\* loop is never about to request a marker that it has requested already
\* (the provider answers a marker as it answered it before, so that a loop
\* that requests a marker twice requests it without end).
C28_FindV2NeverRepeatsMarker ==
    (/\ pager.loop = "findV2"
     /\ AlwaysSameToken(pager.provider)
     /\ pager.state = "running")
        => pager.nextToken \notin Requested(pager)

\* C29: a pagination loop of FunctionGetFunc ends after finitely many
\* provider calls when every fetch fails: after fetches that have all
\* failed (the paginator is still before its first page) the loop has ended,
\* it is not about to make the same request from the same paginator state
\* (which it would repeat for as long as the fetch fails).
C29_FunctionGetEndsWhenFetchFails ==
    (/\ pager.loop \in FunctionLoops
     /\ pager.fetched # <<>>
     /\ pager.firstPage
     /\ pager.err # NoError)
        => pager.state # "running"

============================================================================
